---- MODULE Spec2Model ----
(***************************************************************************)
(* Project-context and project-type resolution of the Ionic CLI            *)
(* (packages/ionic/src/commands/start.ts): ProjectDetails.result() and     *)
(* determine(), with the name and type resolvers they compose.             *)
(***************************************************************************)
EXTENDS Integers, Sequences, FiniteSets, TLC

(***************************************************************************)
(* Bounds of the model.                                                    *)
(***************************************************************************)
\* result() calls made on the one ProjectDetails instance
MaxCalls == 3
\* rewrites of the config file during the lifetime of the instance
MaxChanges == 2
\* entries of the `projects` mapping of a multi-app config
MaxProjects == 2

(***************************************************************************)
(* JavaScript values.  A value is a record [k, s]: k is its typeof/kind,   *)
(* s is what String(value) renders.                                        *)
(***************************************************************************)
Undef == [k |-> "undef", s |-> "undefined"]
Str(x) == [k |-> "str", s |-> x]
Num(x) == [k |-> "num", s |-> x]
Bool(x) == [k |-> "bool", s |-> x]

\* ToBoolean: what `if (v)`, `v ? a : b` and `!v` test
Truthy(v) ==
  \/ v.k = "str" /\ v.s # ""
  \/ v.k = "num" /\ v.s # "0"
  \/ v.k = "bool" /\ v.s = "true"

\* String(v)
StringOf(v) == v.s

(***************************************************************************)
(* Paths are character sequences; startsWith is a character prefix test.   *)
(***************************************************************************)
Chars(s) ==
  CASE s = "a" -> <<"a">>
    [] s = "a1" -> <<"a", "1">>
    [] s = "w" -> <<"w">>
    [] s = "v" -> <<"v">>
    [] OTHER -> <<>>

\* path.resolve(base, rel) for a relative rel of one segment
PathResolve(base, rel) == IF rel = "" THEN base ELSE base \o <<"/">> \o Chars(rel)

\* String.prototype.startsWith
StartsWith(s, p) == Len(p) <= Len(s) /\ SubSeq(s, 1, Len(p)) = p

\* the workspace root handed to the ProjectDetails constructor
RootDirectory == <<"/">> \o Chars("w")

\* the working directories an invocation may run from (ctx.execPath)
ExecPaths ==
  { RootDirectory,
    PathResolve(RootDirectory, "a"),
    PathResolve(RootDirectory, "a1") }

(***************************************************************************)
(* Error codes and project types.                                          *)
(***************************************************************************)
ERR_INVALID_PROJECT_FILE == "ERR_INVALID_PROJECT_FILE"
ERR_INVALID_PROJECT_TYPE == "ERR_INVALID_PROJECT_TYPE"
ERR_MISSING_PROJECT_TYPE == "ERR_MISSING_PROJECT_TYPE"
ERR_MULTI_MISSING_CONFIG == "ERR_MULTI_MISSING_CONFIG"
ERR_MULTI_MISSING_NAME == "ERR_MULTI_MISSING_NAME"

\* the fixed priority list of supported types
PROJECT_TYPES == <<"angular", "ionic-angular", "ionic1", "custom">>

TypeSet == { PROJECT_TYPES[i] : i \in 1..Len(PROJECT_TYPES) }

\* Array.prototype.includes on PROJECT_TYPES
IsProjectType(t) == t.k = "str" /\ t.s \in TypeSet

(***************************************************************************)
(* Config files.  A parsed config is                                       *)
(*   [falsy, hasProjects, projectsIsMap, projects, defaultProject, type,   *)
(*    root]                                                                *)
(* where projects is the mapping in the order the file declares it, a      *)
(* sequence of [key, val], and a val is [nul, root, type].                 *)
(***************************************************************************)
NoEntry == [nul |-> TRUE, root |-> Undef, type |-> Undef]
Entry(root, type) == [nul |-> FALSE, root |-> root, type |-> type]

SingleConfig(type, root) ==
  [falsy |-> FALSE, hasProjects |-> FALSE, projectsIsMap |-> FALSE, projects |-> <<>>,
   defaultProject |-> Undef, type |-> type, root |-> root]

MultiConfig(projects, defaultProject) ==
  [falsy |-> FALSE, hasProjects |-> TRUE, projectsIsMap |-> TRUE, projects |-> projects,
   defaultProject |-> defaultProject, type |-> Undef, root |-> Undef]

\* `projects` is present but is no mapping (a string, say)
OddConfig ==
  [falsy |-> FALSE, hasProjects |-> TRUE, projectsIsMap |-> FALSE, projects |-> <<>>,
   defaultProject |-> Undef, type |-> Str("angular"), root |-> Undef]

\* valid JSON that is falsy: null, 0, false, ""
FalsyConfig ==
  [falsy |-> TRUE, hasProjects |-> FALSE, projectsIsMap |-> FALSE, projects |-> <<>>,
   defaultProject |-> Undef, type |-> Undef, root |-> Undef]

\* the states of the file on disk
JsonFile(c) == [kind |-> "json", config |-> c]
AbsentFile == [kind |-> "absent", config |-> FalsyConfig]
UnreadableFile == [kind |-> "unreadable", config |-> FalsyConfig]
BadJsonFile == [kind |-> "badjson", config |-> FalsyConfig]

\* readJsonFile: rejects when the file is absent, unreadable or not valid JSON
readJsonFile(f) ==
  IF f.kind = "json" THEN [ok |-> TRUE, config |-> f.config]
  ELSE [ok |-> FALSE, config |-> FalsyConfig]

\* guards: single-app iff there is no `projects`, multi-app iff it is a mapping
isProjectConfig(c) == ~c.hasProjects
isMultiProjectConfig(c) == c.hasProjects /\ c.projectsIsMap

(***************************************************************************)
(* Property enumeration and lookup on the parsed `projects` object.        *)
(***************************************************************************)
\* keys that are canonical array indices, with their numeric value
IntegerKeys == {"7"}
KeyNum(key) == IF key = "7" THEN 7 ELSE 0

Keys(projects) == { projects[i].key : i \in 1..Len(projects) }

IsIntegerEntry(e) == e.key \in IntegerKeys
IsStringEntry(e) == e.key \notin IntegerKeys

RECURSIVE SortByKeyNum(_)
SortByKeyNum(es) ==
  IF Len(es) <= 1 THEN es
  ELSE LET m == CHOOSE i \in 1..Len(es) :
                  \A j \in 1..Len(es) : KeyNum(es[i].key) <= KeyNum(es[j].key)
           rest == [k \in 1..(Len(es) - 1) |-> IF k < m THEN es[k] ELSE es[k + 1]]
       IN <<es[m]>> \o SortByKeyNum(rest)

\* lodash.entries(config.projects): integer-like keys first, ascending, then the
\* other keys in the order they were declared
Entries(projects) ==
  SortByKeyNum(SelectSeq(projects, IsIntegerEntry)) \o SelectSeq(projects, IsStringEntry)

\* names every object inherits from Object.prototype
ObjectPrototypeKeys == {"constructor"}

\* config.projects[name]: the own property, else the inherited one (a function,
\* which is truthy and has neither `type` nor `root`), else undefined
GetProject(projects, name) ==
  IF name \in Keys(projects)
  THEN [found |-> TRUE,
        val |-> (CHOOSE e \in { projects[i] : i \in 1..Len(projects) } : e.key = name).val]
  ELSE IF name \in ObjectPrototypeKeys
  THEN [found |-> TRUE, val |-> Entry(Undef, Undef)]
  ELSE [found |-> FALSE, val |-> NoEntry]

(***************************************************************************)
(* The resolvers.  Each returns [val, steps]: the value it yields and the  *)
(* resolution steps it attempted, in order.                                *)
(***************************************************************************)
\* resolveValue(...fns): the functions are called in order until one yields a
\* truthy value; `cands` are their [val, steps], of which only the called ones run
FirstTruthy(cands) ==
  IF \E i \in 1..Len(cands) : Truthy(cands[i].val)
  THEN CHOOSE i \in 1..Len(cands) :
         /\ Truthy(cands[i].val)
         /\ \A j \in 1..(i - 1) : ~Truthy(cands[j].val)
  ELSE 0

RECURSIVE StepsUpTo(_, _)
StepsUpTo(cands, n) ==
  IF n = 0 THEN <<>> ELSE StepsUpTo(cands, n - 1) \o cands[n].steps

resolveValue(cands) ==
  LET i == FirstTruthy(cands)
  IN IF i = 0
     THEN [val |-> Undef, steps |-> StepsUpTo(cands, Len(cands))]
     ELSE [val |-> cands[i].val, steps |-> StepsUpTo(cands, i)]

\* args is [present, project]: the parsed argument map, when one was given
\* mutant: String() applied without testing the value first
getNameFromArgsUntested(args) ==
  [val |-> IF args.present THEN Str(StringOf(args.project)) ELSE Undef,
   steps |-> <<"nameFromArgs">>]

getNameFromArgs(args) ==
  [val |-> IF args.present /\ Truthy(args.project) THEN Str(StringOf(args.project)) ELSE Undef,
   steps |-> <<"nameFromArgs">>]

\* the test of one `projects` entry in getNameFromPathMatch
PathMatches(e, execPath) ==
  /\ ~e.val.nul
  /\ Truthy(e.val.root)
  /\ StartsWith(execPath, PathResolve(RootDirectory, e.val.root.s))

\* mutant: the last matching entry wins
getNameFromPathMatchLast(config, execPath) ==
  LET es == Entries(config.projects)
  IN [val |-> IF \E i \in 1..Len(es) : PathMatches(es[i], execPath)
              THEN Str(es[CHOOSE i \in 1..Len(es) :
                            /\ PathMatches(es[i], execPath)
                            /\ \A j \in (i + 1)..Len(es) : ~PathMatches(es[j], execPath)].key)
              ELSE Undef,
      steps |-> <<"nameFromPathMatch">>]

getNameFromPathMatch(config, execPath) ==
  LET es == Entries(config.projects)
  IN [val |-> IF \E i \in 1..Len(es) : PathMatches(es[i], execPath)
              THEN Str(es[CHOOSE i \in 1..Len(es) :
                            /\ PathMatches(es[i], execPath)
                            /\ \A j \in 1..(i - 1) : ~PathMatches(es[j], execPath)].key)
              ELSE Undef,
      steps |-> <<"nameFromPathMatch">>]

\* mutant: defaultProject is never consulted
getNameFromDefaultProjectNone(config) ==
  [val |-> Undef, steps |-> <<"nameFromDefaultProject">>]

getNameFromDefaultProject(config) ==
  [val |-> IF Truthy(config.defaultProject) THEN config.defaultProject ELSE Undef,
   steps |-> <<"nameFromDefaultProject">>]

getTypeFromConfig(config) ==
  [val |-> IF Truthy(config.type) THEN config.type ELSE Undef,
   steps |-> <<"typeFromConfig">>]

\* Project.directory of the project the detection builds: name undefined, so the
\* `root` it reads is the one at the top level of the config file
Directory(top) ==
  IF Truthy(top.root) THEN PathResolve(RootDirectory, top.root.s) ELSE RootDirectory

\* the detection markers on disk: mk.root under the workspace root, mk.sub elsewhere
MarkersAt(mk, dir) == IF dir = RootDirectory THEN mk.root ELSE mk.sub

\* p.detected() of the project of type t in directory dir
Detected(mk, dir, t) == t \in MarkersAt(mk, dir)

ProbeStep(t) == "probe:" \o t

RECURSIVE ProbeSteps(_)
ProbeSteps(n) == IF n = 0 THEN <<>> ELSE ProbeSteps(n - 1) \o <<ProbeStep(PROJECT_TYPES[n])>>

\* mutant: every type is probed and the last hit wins
getTypeFromDetectionLast(top, mk) ==
  LET dir == Directory(top)
      hit(i) == Detected(mk, dir, PROJECT_TYPES[i])
  IN IF \E i \in 1..Len(PROJECT_TYPES) : hit(i)
     THEN LET n == CHOOSE i \in 1..Len(PROJECT_TYPES) :
                     hit(i) /\ \A j \in (i + 1)..Len(PROJECT_TYPES) : ~hit(j)
          IN [val |-> Str(PROJECT_TYPES[n]), steps |-> ProbeSteps(Len(PROJECT_TYPES))]
     ELSE [val |-> Undef, steps |-> ProbeSteps(Len(PROJECT_TYPES))]

\* probes PROJECT_TYPES in order against the top-level project, stops at the first hit
getTypeFromDetection(top, mk) ==
  LET dir == Directory(top)
      hit(i) == Detected(mk, dir, PROJECT_TYPES[i])
  IN IF \E i \in 1..Len(PROJECT_TYPES) : hit(i)
     THEN LET n == CHOOSE i \in 1..Len(PROJECT_TYPES) :
                     hit(i) /\ \A j \in 1..(i - 1) : ~hit(j)
          IN [val |-> Str(PROJECT_TYPES[n]), steps |-> ProbeSteps(n)]
     ELSE [val |-> Undef, steps |-> ProbeSteps(Len(PROJECT_TYPES))]

\* mutant: a missing type is not reported
TypeErrorsNoMissing(type) ==
  IF Truthy(type) /\ ~IsProjectType(type) THEN <<ERR_INVALID_PROJECT_TYPE>> ELSE <<>>

\* the errors determineSingleApp pushes for a resolved type
TypeErrors(type) ==
  IF ~Truthy(type) THEN <<ERR_MISSING_PROJECT_TYPE>>
  ELSE IF ~IsProjectType(type) THEN <<ERR_INVALID_PROJECT_TYPE>>
  ELSE <<>>

\* mutant: detection is tried before the declared type
determineSingleAppDetectFirst(config, top, mk) ==
  LET r == resolveValue(<<getTypeFromDetection(top, mk), getTypeFromConfig(config)>>)
  IN [context |-> "app", name |-> Undef, type |-> r.val,
      errors |-> TypeErrors(r.val), steps |-> r.steps]

\* config is the (sub-)config whose type is resolved, top the whole file's config
determineSingleApp(config, top, mk) ==
  LET r == resolveValue(<<getTypeFromConfig(config), getTypeFromDetection(top, mk)>>)
  IN [context |-> "app", name |-> Undef, type |-> r.val,
      errors |-> TypeErrors(r.val), steps |-> r.steps]

\* mutant: the path match is tried before --project
determineMultiAppPathFirst(config, args, execPath, mk) ==
  LET n == resolveValue(<<getNameFromPathMatch(config, execPath),
                          getNameFromArgs(args),
                          getNameFromDefaultProject(config)>>)
      name == n.val
      app == GetProject(config.projects, name.s)
      sub == determineSingleApp(app.val, config, mk)
  IN IF Truthy(name)
     THEN IF app.found /\ ~app.val.nul
          THEN [context |-> "multiapp", name |-> name, type |-> sub.type,
                errors |-> sub.errors, steps |-> n.steps \o sub.steps]
          ELSE [context |-> "multiapp", name |-> name, type |-> Undef,
                errors |-> <<ERR_MULTI_MISSING_CONFIG>>, steps |-> n.steps]
     ELSE [context |-> "multiapp", name |-> name, type |-> Undef,
           errors |-> <<ERR_MULTI_MISSING_NAME>>, steps |-> n.steps]

\* mutant: the type is resolved even when the name has no sub-config
determineMultiAppTypeAnyway(config, args, execPath, mk) ==
  LET n == resolveValue(<<getNameFromArgs(args),
                          getNameFromPathMatch(config, execPath),
                          getNameFromDefaultProject(config)>>)
      name == n.val
      app == GetProject(config.projects, name.s)
      sub == determineSingleApp(app.val, config, mk)
  IN IF Truthy(name)
     THEN IF app.found /\ ~app.val.nul
          THEN [context |-> "multiapp", name |-> name, type |-> sub.type,
                errors |-> sub.errors, steps |-> n.steps \o sub.steps]
          ELSE [context |-> "multiapp", name |-> name, type |-> sub.type,
                errors |-> <<ERR_MULTI_MISSING_CONFIG>> \o sub.errors,
                steps |-> n.steps \o sub.steps]
     ELSE [context |-> "multiapp", name |-> name, type |-> Undef,
           errors |-> <<ERR_MULTI_MISSING_NAME>>, steps |-> n.steps]

determineMultiApp(config, args, execPath, mk) ==
  LET n == resolveValue(<<getNameFromArgs(args),
                          getNameFromPathMatch(config, execPath),
                          getNameFromDefaultProject(config)>>)
      name == n.val
      app == GetProject(config.projects, name.s)
      sub == determineSingleApp(app.val, config, mk)
  IN IF Truthy(name)
     THEN IF app.found /\ ~app.val.nul
          THEN [context |-> "multiapp", name |-> name, type |-> sub.type,
                errors |-> sub.errors, steps |-> n.steps \o sub.steps]
          ELSE [context |-> "multiapp", name |-> name, type |-> Undef,
                errors |-> <<ERR_MULTI_MISSING_CONFIG>>, steps |-> n.steps]
     ELSE [context |-> "multiapp", name |-> name, type |-> Undef,
           errors |-> <<ERR_MULTI_MISSING_NAME>>, steps |-> n.steps]

\* mutant: the array determine() pushed result.errors onto is merged with them again
SpreadErrorsBoth(errors, r) == errors \o r.errors

\* { configPath, errors, ...result }: the spread comes last, so the `errors` of the
\* returned object is result.errors, not the array determine() pushed them onto
SpreadErrors(errors, r) == r.errors

\* mutant: a failed read falls through to the single-app resolution
determineFallsThrough(f, args, execPath, mk) ==
  LET read == readJsonFile(f)
      config == read.config
      errors == IF read.ok THEN <<>> ELSE <<ERR_INVALID_PROJECT_FILE>>
      unknown == [context |-> "unknown", name |-> Undef, type |-> Undef,
                  errors |-> errors, steps |-> <<"read">>]
  IN IF ~read.ok \/ ~config.falsy
     THEN IF isProjectConfig(config)
          THEN LET r == determineSingleApp(config, config, mk)
               IN [r EXCEPT !.errors = errors \o r.errors,
                            !.steps = <<"read">> \o r.steps]
          ELSE IF isMultiProjectConfig(config)
          THEN LET r == determineMultiApp(config, args, execPath, mk)
               IN [r EXCEPT !.errors = SpreadErrors(errors \o r.errors, r),
                            !.steps = <<"read">> \o r.steps]
          ELSE unknown
     ELSE unknown

\* the value determine() resolves to for file state f
determine(f, args, execPath, mk) ==
  LET read == readJsonFile(f)
      config == read.config
      errors == IF read.ok THEN <<>> ELSE <<ERR_INVALID_PROJECT_FILE>>
      unknown == [context |-> "unknown", name |-> Undef, type |-> Undef,
                  errors |-> errors, steps |-> <<"read">>]
  IN IF read.ok /\ ~config.falsy
     THEN IF isProjectConfig(config)
          THEN LET r == determineSingleApp(config, config, mk)
               IN [r EXCEPT !.errors = SpreadErrors(errors \o r.errors, r),
                            !.steps = <<"read">> \o r.steps]
          ELSE IF isMultiProjectConfig(config)
          THEN LET r == determineMultiApp(config, args, execPath, mk)
               IN [r EXCEPT !.errors = SpreadErrors(errors \o r.errors, r),
                            !.steps = <<"read">> \o r.steps]
          ELSE unknown
     ELSE unknown

(***************************************************************************)
(* The inputs the model draws from.                                        *)
(***************************************************************************)
ProjectNames == {"app1", "app2", "7"}
EntryRoots == {Undef, Str("a"), Str("a1")}
EntryTypes == {Undef, Str("angular"), Str("bogus")}
EntryVals == {NoEntry} \cup { Entry(r, t) : r \in EntryRoots, t \in EntryTypes }
EntryRecs == [key : ProjectNames, val : EntryVals]

\* the `projects` mappings a JSON file can declare: no key twice
ProjectMaps ==
  { ps \in UNION { [1..n -> EntryRecs] : n \in 0..MaxProjects } :
      \A i, j \in 1..Len(ps) : i # j => ps[i].key # ps[j].key }

DefaultProjects == {Undef, Str(""), Str("app1")}

SingleTypes == {Undef, Str(""), Str("bogus")} \cup { Str(t) : t \in TypeSet }
SingleRoots == {Undef, Str("a")}

SingleFiles == { JsonFile(SingleConfig(t, r)) : t \in SingleTypes, r \in SingleRoots }
MultiFiles == { JsonFile(MultiConfig(ps, d)) : ps \in ProjectMaps, d \in DefaultProjects }
OtherFiles == {AbsentFile, UnreadableFile, BadJsonFile, JsonFile(FalsyConfig), JsonFile(OddConfig)}

NoArgs == [present |-> FALSE, project |-> Undef]
Args(v) == [present |-> TRUE, project |-> v]
ArgsSet ==
  {NoArgs} \cup
  { Args(v) : v \in {Undef, Str(""), Str("app2"), Str("constructor"), Num("7"), Bool("true")} }

AllMarkers == [root : SUBSET TypeSet, sub : {{}, {"ionic1"}}]
FewMarkers ==
  { [root |-> {}, sub |-> {}],
    [root |-> {"ionic1"}, sub |-> {}],
    [root |-> {}, sub |-> {"angular"}] }

\* the files the lifecycle specification starts from and rewrites to
LifeFiles ==
  { AbsentFile,
    JsonFile(SingleConfig(Str("angular"), Undef)),
    JsonFile(SingleConfig(Undef, Undef)),
    JsonFile(MultiConfig(<<[key |-> "app1", val |-> Entry(Str("a"), Str("ionic1"))]>>, Str("app1"))) }

(***************************************************************************)
(* State.                                                                  *)
(***************************************************************************)
VARIABLES
  file,        \* the project config file on disk
  args,        \* this.args
  execPath,    \* this.e.ctx.execPath
  markers,     \* the detection markers on disk
  cached,      \* this._result: the identity of the cached result object, 0 when unset
  objs,        \* the result objects determine() has created, by identity
  calls,       \* the result() calls: where each stands and what it returned
  nDetermine,  \* how many times determine() was entered
  changes,     \* how many times the file was rewritten
  getProjectCall,          \* a getProject() call: where it stands, what it logged and returned
  configFile,              \* the pro_id / app_id fields of the config file, per scope
  loads,                   \* the accesses of Project.config so far: scope, view before, view after
  integrationsFromConfig,  \* the `integrations` mapping of the project's config
  integrationsCall,        \* a getIntegrations() call: its tasks, warnings and outcome
  requireOutcome,          \* how requireXRunner() settles, per capability
  runnerCalls              \* what each getXRunner() call settled with

detailsVars == <<file, args, execPath, markers, cached, objs, calls, nDetermine, changes>>

objectVars ==
  <<getProjectCall, configFile, loads, integrationsFromConfig, integrationsCall,
    requireOutcome, runnerCalls>>

vars == <<detailsVars, objectVars>>

CallIds == 1..MaxCalls

\* pc: idle (not made), suspended (in `await this.determine()`), done (settled)
\* ret: identity of the object returned; reads: readJsonFile calls it made
\* doneBefore: the calls that had settled when this one started
\* pendingAtDone: the other calls still suspended when this one settled
\* verStart, verDone: the file's rewrite count when it started, settled
IdleCall ==
  [pc |-> "idle", ret |-> 0, reads |-> 0, doneBefore |-> {}, pendingAtDone |-> 0,
   verStart |-> 0, verDone |-> 0]

DoneCalls == { c \in CallIds : calls[c].pc = "done" }
SuspendedCalls == { c \in CallIds : calls[c].pc = "suspended" }

\* what getProject returns when it returns no project
NoProject == [kind |-> "undefined", name |-> Undef, type |-> Undef]

\* pc: idle (not called), details (in `await details.result()`), returned
IdleGetProject ==
  [pc |-> "idle", rootDirectory |-> Str("/w"), project |-> NoProject, log |-> <<>>]

\* the two fields of a config scope the <4.0.0 migration touches
NoFields == [app_id |-> Undef, pro_id |-> Undef]

\* top: the top level of the file; sub: the scope projects.<name>
IdleConfigFile == [top |-> NoFields, sub |-> NoFields]

\* pc: idle, awaiting (in `await Promise.all(...)`), returned, failed
\* names: integrationNames; outcomes: how createIntegration settled for each
\* slots: what each mapped promise settled with
\* order: the positions in the order their promises settled
IdleIntegrationsCall ==
  [pc |-> "idle", names |-> <<>>, outcomes |-> <<>>, slots |-> <<>>, order |-> <<>>,
   warnings |-> <<>>, ret |-> <<>>, error |-> "none"]

Capabilities == {"Build", "Serve", "Generate"}

\* requireXRunner() settling with the runner
Succeeds(x) == [ok |-> TRUE, v |-> x \o "Runner"]

\* requireXRunner() rejecting with an exception of class e
Throws(e) == [ok |-> FALSE, v |-> e]

NotCalled == [kind |-> "notCalled", v |-> "none"]

\* the state of the parts of a Project no call has touched
InitGetProjectIdle == getProjectCall = IdleGetProject
InitConfigIdle == configFile = IdleConfigFile /\ loads = <<>>
InitIntegrationsIdle ==
  integrationsFromConfig = <<>> /\ integrationsCall = IdleIntegrationsCall
InitRunnersIdle ==
  /\ requireOutcome = [x \in Capabilities |-> Succeeds(x)]
  /\ runnerCalls = [x \in Capabilities |-> NotCalled]

InitObjects ==
  /\ InitGetProjectIdle
  /\ InitConfigIdle
  /\ InitIntegrationsIdle
  /\ InitRunnersIdle

InitInstance ==
  /\ cached = 0
  /\ objs = <<>>
  /\ calls = [c \in CallIds |-> IdleCall]
  /\ nDetermine = 0
  /\ changes = 0

Init ==
  /\ file \in LifeFiles
  /\ args = NoArgs
  /\ execPath = RootDirectory
  /\ markers = [root |-> {"ionic1"}, sub |-> {}]
  /\ InitInstance
  /\ InitObjects

InitDetermine ==
  /\ \/ file \in SingleFiles /\ args = NoArgs /\ execPath = RootDirectory
        /\ markers \in AllMarkers
     \/ file \in MultiFiles /\ args \in ArgsSet /\ execPath \in ExecPaths
        /\ markers \in FewMarkers
     \/ file \in OtherFiles /\ args \in ArgsSet /\ execPath \in ExecPaths
        /\ markers \in FewMarkers
  /\ InitInstance
  /\ InitObjects

(***************************************************************************)
(* Actions.                                                                *)
(***************************************************************************)
\* mutant: the cached result is never consulted
resultNeverCached(c) ==
  /\ calls[c].pc = "idle"
  /\ calls' = [calls EXCEPT ![c] =
        [@ EXCEPT !.pc = "suspended", !.reads = @ + 1, !.doneBefore = DoneCalls,
                  !.verStart = changes]]
  /\ nDetermine' = nDetermine + 1
  /\ UNCHANGED <<file, args, execPath, markers, cached, objs, changes>>
  /\ UNCHANGED objectVars

\* result(): up to its first suspension.  With _result set it returns it; else it
\* enters determine(), which issues readJsonFile and suspends.
resultEnters(c) ==
  /\ calls[c].pc = "idle"
  /\ IF cached # 0
     THEN /\ calls' = [calls EXCEPT ![c] =
                 [@ EXCEPT !.pc = "done", !.ret = cached, !.doneBefore = DoneCalls,
                           !.pendingAtDone = Cardinality(SuspendedCalls),
                           !.verStart = changes, !.verDone = changes]]
          /\ UNCHANGED nDetermine
     ELSE /\ calls' = [calls EXCEPT ![c] =
                 [@ EXCEPT !.pc = "suspended", !.reads = @ + 1, !.doneBefore = DoneCalls,
                           !.verStart = changes]]
          /\ nDetermine' = nDetermine + 1
  /\ UNCHANGED <<file, args, execPath, markers, cached, objs, changes>>

\* a result() call made on the instance directly
result(c) == resultEnters(c) /\ UNCHANGED objectVars

\* the read settles with the file as it is now; the rest of determine() runs, then
\* `this._result = <the new object>; return this._result`
determineSettles(c) ==
  /\ calls[c].pc = "suspended"
  /\ objs' = Append(objs, determine(file, args, execPath, markers))
  /\ cached' = Len(objs')
  /\ calls' = [calls EXCEPT ![c] =
        [@ EXCEPT !.pc = "done", !.ret = cached',
                  !.pendingAtDone = Cardinality(SuspendedCalls \ {c}),
                  !.verDone = changes]]
  /\ UNCHANGED <<file, args, execPath, markers, nDetermine, changes>>
  /\ UNCHANGED objectVars

\* something outside the instance rewrites, removes or corrupts the config file
FileChange ==
  /\ changes < MaxChanges
  /\ \E f \in LifeFiles \ {file} : file' = f
  /\ changes' = changes + 1
  /\ UNCHANGED <<args, execPath, markers, cached, objs, calls, nDetermine>>
  /\ UNCHANGED objectVars

Next ==
  \/ \E c \in CallIds : result(c)
  \/ \E c \in CallIds : determineSettles(c)
  \/ FileChange

Spec == Init /\ [][Next]_vars

\* one resolution pass over every input of the wide input sets
NextDetermine ==
  \/ result(1)
  \/ determineSettles(1)

SpecDetermine == InitDetermine /\ [][NextDetermine]_vars

(***************************************************************************)
(* Vocabulary of the properties.                                           *)
(***************************************************************************)
\* the result object a settled call returned
Returned(c) == objs[calls[c].ret]

\* the one pass of SpecDetermine has settled
Settled == calls[1].pc = "done"

Config == file.config
IsJson == file.kind = "json" /\ ~Config.falsy
IsSingleApp == IsJson /\ ~Config.hasProjects
IsMultiApp == IsJson /\ Config.hasProjects /\ Config.projectsIsMap

ErrorSet(r) == { r.errors[i] : i \in 1..Len(r.errors) }
StepSet(r) == { r.steps[i] : i \in 1..Len(r.steps) }
NameSteps == {"nameFromArgs", "nameFromPathMatch", "nameFromDefaultProject"}
TypeSteps == {"typeFromConfig"} \cup { ProbeStep(t) : t \in TypeSet }

\* --project carries a usable value
HasProjectArg == args.present /\ Truthy(args.project)

\* entry i of the declared `projects` declares a root the working directory starts with
RootContainsCwd(i) ==
  LET v == Config.projects[i].val
  IN /\ ~v.nul
     /\ v.root.k = "str" /\ v.root.s # ""
     /\ StartsWith(execPath, RootDirectory \o <<"/">> \o Chars(v.root.s))

\* the directory of entry i as Project.directory resolves it: the workspace root
\* when the entry declares no root
ResolvedRootContainsCwd(i) ==
  LET v == Config.projects[i].val
  IN /\ ~v.nul
     /\ StartsWith(execPath,
                   IF v.root.k = "str" /\ v.root.s # ""
                   THEN RootDirectory \o <<"/">> \o Chars(v.root.s)
                   ELSE RootDirectory)

ProjectIndexes == 1..Len(Config.projects)

\* entry i is enumerated before entry j: integer-like keys first, ascending, then
\* the other keys as declared
EnumeratedBefore(i, j) ==
  LET ki == Config.projects[i].key
      kj == Config.projects[j].key
  IN \/ ki \in IntegerKeys /\ kj \notin IntegerKeys
     \/ ki \in IntegerKeys /\ kj \in IntegerKeys /\ KeyNum(ki) < KeyNum(kj)
     \/ ki \notin IntegerKeys /\ kj \notin IntegerKeys /\ i < j

(***************************************************************************)
(* getProject: resolve the details, report them, build the project.        *)
(***************************************************************************)
\* createProjectFromType(filePath, name, deps, type): a project of one of the four
\* types, a FatalException for anything else
createProjectFromType(name, type) ==
  IF type.k = "str" /\ type.s \in {"angular", "ionic-angular", "ionic1", "custom"}
  THEN [kind |-> "project", name |-> name, type |-> type]
  ELSE [kind |-> "FatalException", name |-> name, type |-> type]

\* what getProject writes to the log for the details r, in order
getProjectLog(r) ==
  (IF ERR_INVALID_PROJECT_FILE \in ErrorSet(r)
   THEN <<"error:ERR_INVALID_PROJECT_FILE", "nl">> ELSE <<>>)
  \o (IF r.context = "multiapp" /\ ERR_MULTI_MISSING_NAME \in ErrorSet(r)
      THEN <<"warn:ERR_MULTI_MISSING_NAME", "nl">> ELSE <<>>)
  \o (IF r.context = "multiapp" /\ Truthy(r.name)
         /\ ERR_MULTI_MISSING_CONFIG \in ErrorSet(r)
      THEN <<"warn:ERR_MULTI_MISSING_CONFIG">> ELSE <<>>)
  \o (IF ERR_MISSING_PROJECT_TYPE \in ErrorSet(r)
      THEN <<"warn:ERR_MISSING_PROJECT_TYPE", "nl">> ELSE <<>>)
  \o (IF Truthy(r.type) /\ ERR_INVALID_PROJECT_TYPE \in ErrorSet(r)
      THEN <<"error:ERR_INVALID_PROJECT_TYPE", "nl">> ELSE <<>>)

\* mutant: the details' type is handed to the factory whatever the errors say
getProjectReturnAnyType(r) ==
  IF ~Truthy(r.type) THEN NoProject
  ELSE IF r.context = "app" THEN createProjectFromType(Undef, r.type)
  ELSE IF r.context = "multiapp" THEN createProjectFromType(r.name, r.type)
  ELSE NoProject

\* what getProject returns for the details r
getProjectReturn(r) ==
  IF ~Truthy(r.type) THEN NoProject
  ELSE IF ERR_INVALID_PROJECT_TYPE \in ErrorSet(r) THEN NoProject
  ELSE IF r.context = "app" THEN createProjectFromType(Undef, r.type)
  ELSE IF r.context = "multiapp" THEN createProjectFromType(r.name, r.type)
  ELSE NoProject

\* getProject up to its first suspension: without a rootDirectory it returns at
\* once; else it builds a ProjectDetails and awaits its result()
getProject ==
  /\ getProjectCall.pc = "idle"
  /\ IF ~Truthy(getProjectCall.rootDirectory)
     THEN /\ getProjectCall' = [getProjectCall EXCEPT !.pc = "returned"]
          /\ UNCHANGED detailsVars
     ELSE /\ getProjectCall' = [getProjectCall EXCEPT !.pc = "details"]
          /\ resultEnters(1)
  /\ UNCHANGED <<configFile, loads, integrationsFromConfig, integrationsCall,
                 requireOutcome, runnerCalls>>

\* getProject after `await details.result()`
getProjectResumes ==
  /\ getProjectCall.pc = "details"
  /\ calls[1].pc = "done"
  /\ getProjectCall' = [getProjectCall EXCEPT !.pc = "returned",
                                              !.log = getProjectLog(Returned(1)),
                                              !.project = getProjectReturn(Returned(1))]
  /\ UNCHANGED detailsVars
  /\ UNCHANGED <<configFile, loads, integrationsFromConfig, integrationsCall,
                 requireOutcome, runnerCalls>>

\* the rootDirectory argument: absent, empty, the workspace root
GetProjectRoots == {Undef, Str(""), Str("/w")}

GetProjectMultiFiles ==
  { JsonFile(MultiConfig(<<[key |-> "app1", val |-> Entry(Str("a"), t)]>>, d)) :
      t \in EntryTypes, d \in DefaultProjects }

InitGetProject ==
  /\ \/ file \in SingleFiles /\ args = NoArgs /\ execPath = RootDirectory
        /\ markers \in AllMarkers
     \/ file \in GetProjectMultiFiles \cup OtherFiles /\ args \in ArgsSet
        /\ execPath \in ExecPaths /\ markers \in FewMarkers
  /\ InitInstance
  /\ getProjectCall \in { [IdleGetProject EXCEPT !.rootDirectory = d] : d \in GetProjectRoots }
  /\ InitConfigIdle
  /\ InitIntegrationsIdle
  /\ InitRunnersIdle

NextGetProject ==
  \/ getProject
  \/ determineSettles(1)
  \/ getProjectResumes

SpecGetProject == InitGetProject /\ [][NextGetProject]_vars

(***************************************************************************)
(* Project.config: every access builds a ProjectConfig over the file, and  *)
(* the constructor migrates a <4.0.0 app_id.                               *)
(***************************************************************************)
\* how many accesses of Project.config a behaviour makes
MaxLoads == 3

\* BaseConfig.set(property, value) on the scope c
set(c, property, value) == [c EXCEPT ![property] = value]

\* BaseConfig.unset(property) on the scope c
unset(c, property) == [c EXCEPT ![property] = Undef]

\* mutant: pro_id is set but the legacy field stays
ProjectConfigKeepsAppId(c) ==
  IF c.app_id.k = "str"
  THEN IF Truthy(c.app_id) THEN set(c, "pro_id", c.app_id) ELSE c
  ELSE c

\* the constructor of ProjectConfig on the scope c: what it leaves in the file
ProjectConfig(c) ==
  IF c.app_id.k = "str"
  THEN unset(IF Truthy(c.app_id) THEN set(c, "pro_id", c.app_id) ELSE c, "app_id")
  ELSE c

\* the scope pathPrefix selects: the top level without a name, projects.<name> with
Scope(name) == IF name = Undef THEN "top" ELSE "sub"

\* the names of the Project objects that access the file
ConfigNames == {Undef, Str("app1")}

\* `get config()`: a new ProjectConfig over the file, scoped by the project's name
getConfig ==
  /\ Len(loads) < MaxLoads
  /\ \E name \in ConfigNames :
       LET scope == Scope(name)
           after == ProjectConfig(configFile[scope])
       IN /\ configFile' = [configFile EXCEPT ![scope] = after]
          /\ loads' = Append(loads, [scope |-> scope, before |-> configFile[scope],
                                     after |-> after, fileBefore |-> configFile,
                                     fileAfter |-> configFile'])
  /\ UNCHANGED detailsVars
  /\ UNCHANGED <<getProjectCall, integrationsFromConfig, integrationsCall,
                 requireOutcome, runnerCalls>>

AppIds == {Undef, Str(""), Str("X"), Num("7")}
ProIds == {Undef, Str("Y"), Str("X")}
ConfigFields == [app_id : AppIds, pro_id : ProIds]

InitConfig ==
  /\ file = AbsentFile /\ args = NoArgs /\ execPath = RootDirectory
  /\ markers = [root |-> {}, sub |-> {}]
  /\ InitInstance
  /\ configFile \in [top : ConfigFields, sub : ConfigFields]
  /\ loads = <<>>
  /\ InitGetProjectIdle
  /\ InitIntegrationsIdle
  /\ InitRunnersIdle

NextConfig == getConfig

SpecConfig == InitConfig /\ [][NextConfig]_vars

(***************************************************************************)
(* Project.getIntegrations: the enabled names of the `integrations`        *)
(* mapping are instantiated concurrently and joined by Promise.all.        *)
(***************************************************************************)
\* how many integrations the config declares at most
MaxIntegrations == 2

IntegrationNames == {"capacitor", "cordova", "enterprise"}

\* a declared integration: null, or an object whose `enabled` is absent, true or false
IntegrationVals ==
  { [nul |-> TRUE, enabled |-> Undef] } \cup
  { [nul |-> FALSE, enabled |-> e] : e \in {Undef, Bool("true"), Bool("false")} }

\* the `integrations` mappings, as the entries in the order they are declared
IntegrationMaps ==
  { m \in UNION { [1..n -> [name : IntegrationNames, val : IntegrationVals]] :
                    n \in 0..MaxIntegrations } :
      \A i, j \in 1..Len(m) : i # j => m[i].name # m[j].name }

\* Object.keys(integrationsFromConfig): none of the names is integer-like, so the
\* keys come as declared
ObjectKeys(m) == [i \in 1..Len(m) |-> m[i].name]

\* names.filter(n => { const c = integrationsFromConfig[n]; return c && c.enabled !== false })
integrationNames(m) ==
  LET keep(e) == ~e.val.nul /\ e.val.enabled # Bool("false")
      es == SelectSeq(m, keep)
  IN ObjectKeys(es)

\* how createIntegration(name) settles
CreateOutcomes == {"integration", "IntegrationNotFoundException", "FatalException"}

Pending == [kind |-> "pending", v |-> "none"]

\* mutant: every failure is logged and swallowed
mappedSwallowsAll(name, o) ==
  IF o = "integration"
  THEN [slot |-> [kind |-> "fulfilled", v |-> name], warn |-> <<>>]
  ELSE [slot |-> [kind |-> "fulfilled", v |-> "undefined"], warn |-> <<name>>]

\* the async arrow mapped over integrationNames, once createIntegration(name) has
\* settled with o: the promise it settles and what it logs
mapped(name, o) ==
  IF o = "integration"
  THEN [slot |-> [kind |-> "fulfilled", v |-> name], warn |-> <<>>]
  ELSE IF o # "IntegrationNotFoundException"
  THEN [slot |-> [kind |-> "rejected", v |-> o \o ":" \o name], warn |-> <<>>]
  ELSE [slot |-> [kind |-> "fulfilled", v |-> "undefined"], warn |-> <<name>>]

\* mutant: the values are collected in the order the promises settled
PromiseAllByCompletion(slots, order) == [k \in 1..Len(order) |-> slots[order[k]].v]

\* the array Promise.all fulfils with: the values by position, whatever the order
\* in which the promises settled
PromiseAll(slots, order) == [i \in 1..Len(slots) |-> slots[i].v]

IsDefined(v) == v # "undefined"

\* integrations.filter(i => typeof i !== 'undefined')
Defined(values) == SelectSeq(values, IsDefined)

\* getIntegrations up to `await Promise.all(...)`: every mapped arrow has called
\* createIntegration and is suspended; Promise.all of no promise fulfils with []
getIntegrations ==
  /\ integrationsCall.pc = "idle"
  /\ LET names == integrationNames(integrationsFromConfig)
     IN integrationsCall' =
          [integrationsCall EXCEPT
             !.pc = IF names = <<>> THEN "returned" ELSE "awaiting",
             !.names = names,
             !.outcomes = [i \in 1..Len(names) |-> "none"],
             !.slots = [i \in 1..Len(names) |-> Pending]]
  /\ UNCHANGED detailsVars
  /\ UNCHANGED <<getProjectCall, configFile, loads, integrationsFromConfig,
                 requireOutcome, runnerCalls>>

\* createIntegration of position i settles with o; the arrow's promise settles;
\* the first rejection rejects Promise.all and getIntegrations with it, the last
\* fulfilment fulfils Promise.all and getIntegrations returns
createIntegrationSettles(i, o) ==
  /\ i \in 1..Len(integrationsCall.slots)
  /\ integrationsCall.slots[i] = Pending
  /\ LET m == mapped(integrationsCall.names[i], o)
         slots == [integrationsCall.slots EXCEPT ![i] = m.slot]
         order == Append(integrationsCall.order, i)
         awaiting == integrationsCall.pc = "awaiting"
         allFulfilled == \A j \in 1..Len(slots) : slots[j].kind = "fulfilled"
     IN integrationsCall' =
          [integrationsCall EXCEPT
             !.outcomes = [@ EXCEPT ![i] = o],
             !.slots = slots,
             !.order = order,
             !.warnings = @ \o m.warn,
             !.pc = IF awaiting /\ m.slot.kind = "rejected" THEN "failed"
                    ELSE IF awaiting /\ allFulfilled THEN "returned"
                    ELSE @,
             !.error = IF awaiting /\ m.slot.kind = "rejected" THEN m.slot.v ELSE @,
             !.ret = IF awaiting /\ m.slot.kind # "rejected" /\ allFulfilled
                     THEN Defined(PromiseAll(slots, order)) ELSE @]
  /\ UNCHANGED detailsVars
  /\ UNCHANGED <<getProjectCall, configFile, loads, integrationsFromConfig,
                 requireOutcome, runnerCalls>>

InitIntegrations ==
  /\ file = AbsentFile /\ args = NoArgs /\ execPath = RootDirectory
  /\ markers = [root |-> {}, sub |-> {}]
  /\ InitInstance
  /\ integrationsFromConfig \in IntegrationMaps
  /\ integrationsCall = IdleIntegrationsCall
  /\ InitGetProjectIdle
  /\ InitConfigIdle
  /\ InitRunnersIdle

NextIntegrations ==
  \/ getIntegrations
  \/ \E i \in 1..MaxIntegrations, o \in CreateOutcomes : createIntegrationSettles(i, o)

SpecIntegrations == InitIntegrations /\ [][NextIntegrations]_vars

(***************************************************************************)
(* Project.getBuildRunner / getServeRunner / getGenerateRunner.            *)
(***************************************************************************)
\* how requireXRunner() settles: the runner, RunnerNotFoundException, or an
\* exception of another class
RequireOutcomes(x) ==
  { Succeeds(x), Throws("RunnerNotFoundException"), Throws("FatalException"),
    Throws("TypeError") }

\* what a getXRunner() call settles with
Returns(v) == [kind |-> "returns", v |-> v]
Rejects(e) == [kind |-> "throws", v |-> e]

\* mutant: every exception is swallowed
getRunnerSwallowsAll(required) ==
  IF required.ok THEN Returns(required.v) ELSE Returns("undefined")

\* try { return await this.requireXRunner() } catch (e) { if (!(e instanceof
\* RunnerNotFoundException)) { throw e } }
getRunner(required) ==
  IF required.ok THEN Returns(required.v)
  ELSE IF required.v # "RunnerNotFoundException" THEN Rejects(required.v)
  ELSE Returns("undefined")

OtherObjectsUnchanged ==
  /\ UNCHANGED detailsVars
  /\ UNCHANGED <<getProjectCall, configFile, loads, integrationsFromConfig,
                 integrationsCall, requireOutcome>>

getBuildRunner ==
  /\ runnerCalls["Build"] = NotCalled
  /\ runnerCalls' = [runnerCalls EXCEPT !["Build"] = getRunner(requireOutcome["Build"])]
  /\ OtherObjectsUnchanged

getServeRunner ==
  /\ runnerCalls["Serve"] = NotCalled
  /\ runnerCalls' = [runnerCalls EXCEPT !["Serve"] = getRunner(requireOutcome["Serve"])]
  /\ OtherObjectsUnchanged

getGenerateRunner ==
  /\ runnerCalls["Generate"] = NotCalled
  /\ runnerCalls' =
       [runnerCalls EXCEPT !["Generate"] = getRunner(requireOutcome["Generate"])]
  /\ OtherObjectsUnchanged

InitRunners ==
  /\ file = AbsentFile /\ args = NoArgs /\ execPath = RootDirectory
  /\ markers = [root |-> {}, sub |-> {}]
  /\ InitInstance
  /\ requireOutcome \in
       { f \in [Capabilities -> UNION { RequireOutcomes(x) : x \in Capabilities }] :
           \A x \in Capabilities : f[x] \in RequireOutcomes(x) }
  /\ runnerCalls = [x \in Capabilities |-> NotCalled]
  /\ InitGetProjectIdle
  /\ InitConfigIdle
  /\ InitIntegrationsIdle

NextRunners ==
  \/ getBuildRunner
  \/ getServeRunner
  \/ getGenerateRunner

SpecRunners == InitRunners /\ [][NextRunners]_vars

C2_DetermineAtMostOnce == nDetermine <= 1

(***************************************************************************)
(* C3  A failed read (file absent, unreadable, not JSON) resolves to       *)
(* context unknown, errors exactly [ERR_INVALID_PROJECT_FILE], no type,    *)
(* and no name or type resolution step is attempted.                       *)
(***************************************************************************)
C3_ReadFailure ==
  (Settled /\ file.kind # "json") =>
    /\ Returned(1).context = "unknown"
    /\ Returned(1).errors = <<ERR_INVALID_PROJECT_FILE>>
    /\ Returned(1).type = Undef
    /\ StepSet(Returned(1)) \cap (NameSteps \cup TypeSteps) = {}

C3_Witness ==
  /\ Settled /\ file.kind = "badjson"
  /\ HasProjectArg /\ markers.root # {}
  /\ Returned(1).errors = <<ERR_INVALID_PROJECT_FILE>>

(***************************************************************************)
(* C4  A single-app config declaring one of the four supported types       *)
(* resolves to context app, that type and no errors, whatever markers are  *)
(* on disk.                                                                *)
(***************************************************************************)
C4_DeclaredType ==
  (Settled /\ IsSingleApp /\ Config.type.k = "str" /\ Config.type.s \in TypeSet) =>
    /\ Returned(1).context = "app"
    /\ Returned(1).type = Config.type
    /\ Returned(1).errors = <<>>

C4_Witness ==
  /\ Settled /\ IsSingleApp
  /\ Config.type = Str("custom") /\ markers.root = {"angular", "ionic1"}
  /\ Config.root = Undef
  /\ Returned(1).type = Str("custom")

(***************************************************************************)
(* C5  In a multi-app workspace a non-empty --project value is the         *)
(* resolved name, whatever the path matches and defaultProject are.        *)
(***************************************************************************)
C5_ArgWins ==
  (Settled /\ IsMultiApp /\ HasProjectArg) =>
    /\ Returned(1).name.k = "str"
    /\ Returned(1).name.s = StringOf(args.project)

\* --project=app2, while app1's root contains the working directory, app2's root
\* does not, and defaultProject is app1
C5_Witness ==
  /\ Settled /\ IsMultiApp
  /\ args = Args(Str("app2"))
  /\ Config.defaultProject = Str("app1")
  /\ \E i, j \in ProjectIndexes :
       /\ Config.projects[i].key = "app1" /\ RootContainsCwd(i)
       /\ Config.projects[j].key = "app2" /\ ~ResolvedRootContainsCwd(j)
       /\ ~Config.projects[j].val.nul
  /\ Returned(1).name = Str("app2")

(***************************************************************************)
(* C6  As stated: with no --project, the resolved name is the first        *)
(* project in declaration order whose resolved root directory the working  *)
(* directory starts with, before defaultProject.                           *)
(***************************************************************************)
C6_Original ==
  (Settled /\ IsMultiApp /\ ~HasProjectArg) =>
    \A i \in ProjectIndexes :
      ( /\ ResolvedRootContainsCwd(i)
        /\ \A j \in 1..(i - 1) : ~ResolvedRootContainsCwd(j) )
      => Returned(1).name = Str(Config.projects[i].key)

(***************************************************************************)
(* C6  As amended: with no --project, the resolved name is the first       *)
(* project in enumeration order (integer-like keys first, ascending, then  *)
(* declaration order) that declares a non-empty root which the working     *)
(* directory starts with; this match wins over defaultProject.             *)
(***************************************************************************)
C6_PathMatch ==
  (Settled /\ IsMultiApp /\ ~HasProjectArg) =>
    \A i \in ProjectIndexes :
      ( /\ RootContainsCwd(i)
        /\ \A j \in ProjectIndexes : (j # i /\ RootContainsCwd(j)) => EnumeratedBefore(i, j) )
      => Returned(1).name = Str(Config.projects[i].key)

\* two projects match, the one declared first is chosen, defaultProject names the other
C6_Witness ==
  /\ Settled /\ IsMultiApp /\ ~HasProjectArg
  /\ Len(Config.projects) = 2
  /\ RootContainsCwd(1) /\ RootContainsCwd(2)
  /\ Config.projects[1].key = "app2"
  /\ Config.defaultProject = Str(Config.projects[2].key)
  /\ Returned(1).name = Str("app2")

C8_MissingConfig ==
  ( /\ Settled /\ IsMultiApp
    /\ Truthy(Returned(1).name)
    /\ Returned(1).name.s \notin Keys(Config.projects) )
  => /\ Returned(1).context = "multiapp"
     /\ Returned(1).type = Undef
     /\ ERR_MULTI_MISSING_CONFIG \in ErrorSet(Returned(1))
     /\ StepSet(Returned(1)) \cap TypeSteps = {}

(***************************************************************************)
(* C9  In a multi-app workspace with no --project, no path match and no    *)
(* defaultProject the result is context multiapp with no name, no type and *)
(* ERR_MULTI_MISSING_NAME; no other result carries ERR_MULTI_MISSING_NAME. *)
(***************************************************************************)
C9_NoNameSource ==
  /\ IsMultiApp /\ ~HasProjectArg
  /\ \A i \in ProjectIndexes : ~RootContainsCwd(i)
  /\ ~Truthy(Config.defaultProject)

C9_MissingName ==
  Settled =>
    /\ C9_NoNameSource =>
         /\ Returned(1).context = "multiapp"
         /\ Returned(1).name = Undef
         /\ Returned(1).type = Undef
         /\ ERR_MULTI_MISSING_NAME \in ErrorSet(Returned(1))
    /\ ERR_MULTI_MISSING_NAME \in ErrorSet(Returned(1)) => C9_NoNameSource

\* nothing names a project although the mapping declares two and markers are on disk
C9_Witness ==
  /\ Settled /\ C9_NoNameSource
  /\ args = Args(Str(""))
  /\ Config.defaultProject = Str("")
  /\ Len(Config.projects) = 2
  /\ markers.root # {}
  /\ Returned(1).errors = <<ERR_MULTI_MISSING_NAME>>

(***************************************************************************)
(* C10  A single-app config without a type, in a directory where no        *)
(* supported type's marker is present, resolves to context app, no type    *)
(* and errors exactly [ERR_MISSING_PROJECT_TYPE].                          *)
(***************************************************************************)
C10_NothingDetected ==
  ( /\ Settled /\ IsSingleApp
    /\ Config.type = Undef
    /\ MarkersAt(markers, Directory(Config)) \cap TypeSet = {} )
  => /\ Returned(1).context = "app"
     /\ Returned(1).type = Undef
     /\ Returned(1).errors = <<ERR_MISSING_PROJECT_TYPE>>

\* every type was probed and none was detected
C10_Witness ==
  /\ Settled /\ IsSingleApp
  /\ Config.type = Undef /\ Config.root = Undef
  /\ markers.root = {} /\ markers.sub # {}
  /\ { ProbeStep(t) : t \in TypeSet } \subseteq StepSet(Returned(1))
  /\ Returned(1).errors = <<ERR_MISSING_PROJECT_TYPE>>

(***************************************************************************)
(* C11  With no type declared and the markers of two or more types         *)
(* present, detection yields the type earliest in PROJECT_TYPES; the       *)
(* probes run in that order and stop at the first detected type.           *)
(***************************************************************************)
IsProbeStep(s) == s \in { ProbeStep(t) : t \in TypeSet }

\* the probes a resolution made, in the order it made them
Probes(r) == SelectSeq(r.steps, IsProbeStep)

\* the types whose marker is present where the detection looks
PresentTypes == MarkersAt(markers, Directory(Config)) \cap TypeSet

\* the probes are those of the first n types, and n is the first present type, or
\* every type when none is present
ProbesStopAtFirst(r) ==
  \E n \in 1..Len(PROJECT_TYPES) :
    /\ Probes(r) = [i \in 1..n |-> ProbeStep(PROJECT_TYPES[i])]
    /\ \A j \in 1..(n - 1) : PROJECT_TYPES[j] \notin PresentTypes
    /\ IF PROJECT_TYPES[n] \in PresentTypes
       THEN r.type = Str(PROJECT_TYPES[n])
       ELSE n = Len(PROJECT_TYPES) /\ r.type = Undef

C11_EarliestDetected ==
  Settled =>
    /\ (IsSingleApp /\ ~Truthy(Config.type) /\ Cardinality(PresentTypes) >= 2) =>
         /\ Probes(Returned(1)) # <<>>
         /\ Returned(1).type.s \in PresentTypes
         /\ ProbesStopAtFirst(Returned(1))
    /\ Probes(Returned(1)) # <<>> => ProbesStopAtFirst(Returned(1))

\* ionic-angular and custom are both present: ionic-angular is returned and neither
\* ionic1 nor custom is probed
C11_Witness ==
  /\ Settled /\ IsSingleApp /\ Config.type = Undef /\ Config.root = Undef
  /\ markers.root = {"ionic-angular", "custom"}
  /\ Returned(1).type = Str("ionic-angular")
  /\ Probes(Returned(1)) = <<ProbeStep("angular"), ProbeStep("ionic-angular")>>

(***************************************************************************)
(* C13  As stated: some multiapp result carries a name-resolution error    *)
(* and a type-resolution error together.  The resolution is a function of  *)
(* its inputs, so the statement is about the inputs.                       *)
(***************************************************************************)
NameErrors == {ERR_MULTI_MISSING_NAME, ERR_MULTI_MISSING_CONFIG}
TypeResolutionErrors == {ERR_MISSING_PROJECT_TYPE, ERR_INVALID_PROJECT_TYPE}

Coexist(r) ==
  /\ r.context = "multiapp"
  /\ ErrorSet(r) \cap NameErrors # {}
  /\ ErrorSet(r) \cap TypeResolutionErrors # {}

C13_Original ==
  \E f \in MultiFiles, a \in ArgsSet, p \in ExecPaths, mk \in FewMarkers :
    Coexist(determine(f, a, p, mk))

(***************************************************************************)
(* C13  As amended: a multiapp result never carries a name-resolution      *)
(* error together with a type-resolution error; it carries at most one     *)
(* error.                                                                  *)
(***************************************************************************)
C13_NeverCoexist ==
  (Settled /\ Returned(1).context = "multiapp") =>
    /\ ~Coexist(Returned(1))
    /\ Len(Returned(1).errors) <= 1

\* the name has no sub-config, and nothing declares or marks a type: only the name
\* error is reported
C13_Witness ==
  /\ Settled /\ IsMultiApp
  /\ markers = [root |-> {}, sub |-> {}]
  /\ Truthy(Returned(1).name)
  /\ Returned(1).name.s \notin ObjectPrototypeKeys
  /\ Returned(1).errors = <<ERR_MULTI_MISSING_CONFIG>>
  /\ StepSet(Returned(1)) \cap TypeSteps = {}

(***************************************************************************)
(* C18  In a multi-app workspace whose resolved name maps to a sub-config  *)
(* without a type, the type is detected in that sub-project's directory.   *)
(***************************************************************************)
\* the entry of `projects` the resolved name selects
SelectedEntry(r) ==
  (CHOOSE e \in { Config.projects[i] : i \in ProjectIndexes } : e.key = r.name.s).val

\* the directory of a sub-project: its root under the workspace, or the workspace
EntryDirectory(v) ==
  IF v.root.k = "str" /\ v.root.s # ""
  THEN RootDirectory \o <<"/">> \o Chars(v.root.s)
  ELSE RootDirectory

\* what a detection in directory dir yields
FirstPresentAt(dir) ==
  LET present == MarkersAt(markers, dir) \cap TypeSet
  IN IF present = {} THEN Undef
     ELSE Str(PROJECT_TYPES[CHOOSE n \in 1..Len(PROJECT_TYPES) :
                /\ PROJECT_TYPES[n] \in present
                /\ \A j \in 1..(n - 1) : PROJECT_TYPES[j] \notin present])

C18_DetectsSubProject ==
  ( /\ Settled /\ IsMultiApp
    /\ Truthy(Returned(1).name)
    /\ Returned(1).name.s \in Keys(Config.projects)
    /\ ~SelectedEntry(Returned(1)).nul
    /\ ~Truthy(SelectedEntry(Returned(1)).type) )
  => Returned(1).type = FirstPresentAt(EntryDirectory(SelectedEntry(Returned(1))))

(***************************************************************************)
(* C19  The errors of a result hold each code at most once, and at most    *)
(* one of ERR_MISSING_PROJECT_TYPE and ERR_INVALID_PROJECT_TYPE.           *)
(***************************************************************************)
C19_NoDuplicateErrors ==
  Settled =>
    /\ \A i, j \in 1..Len(Returned(1).errors) :
         i # j => Returned(1).errors[i] # Returned(1).errors[j]
    /\ ~(TypeResolutionErrors \subseteq ErrorSet(Returned(1)))

\* the sub-result's error was pushed onto determine()'s array and is reported once
C19_Witness ==
  /\ Settled /\ IsMultiApp
  /\ Returned(1).errors = <<ERR_INVALID_PROJECT_TYPE>>
  /\ Returned(1).type = Str("bogus")

(***************************************************************************)
(* C12  A type present in the details getProject resolved is one of the    *)
(* four project types or comes with ERR_INVALID_PROJECT_TYPE, and          *)
(* getProject hands createProjectFromType only types of that set: with     *)
(* ERR_INVALID_PROJECT_TYPE it returns no project.                         *)
(***************************************************************************)
GetProjectReturned == getProjectCall.pc = "returned" /\ calls[1].pc = "done"

C12_TypeInEnumOrInvalid ==
  /\ \A i \in 1..Len(objs) :
       objs[i].type # Undef =>
         \/ IsProjectType(objs[i].type)
         \/ ERR_INVALID_PROJECT_TYPE \in ErrorSet(objs[i])
  /\ GetProjectReturned =>
       /\ getProjectCall.project.kind # "undefined" =>
            /\ getProjectCall.project.kind = "project"
            /\ getProjectCall.project.type = Returned(1).type
            /\ getProjectCall.project.type.s \in TypeSet
       /\ ERR_INVALID_PROJECT_TYPE \in ErrorSet(Returned(1)) =>
            getProjectCall.project = NoProject

C12_Witness ==
  /\ GetProjectReturned
  /\ Returned(1).type = Str("bogus")
  /\ ERR_INVALID_PROJECT_TYPE \in ErrorSet(Returned(1))
  /\ getProjectCall.project = NoProject
  /\ getProjectCall.log = <<"error:ERR_INVALID_PROJECT_TYPE", "nl">>

(***************************************************************************)
(* C14  A load of a scope whose app_id is a non-empty string X leaves      *)
(* pro_id = X and no app_id; a later load of the same scope changes        *)
(* nothing; a scope whose app_id is not a string is left as it was; the    *)
(* other scope of the file is never touched.                               *)
(***************************************************************************)
OtherScope(scope) == IF scope = "top" THEN "sub" ELSE "top"

C14_MigrationIdempotent ==
  \A j \in 1..Len(loads) :
    LET l == loads[j]
    IN /\ (l.before.app_id.k = "str" /\ l.before.app_id.s # "") =>
            (l.after.pro_id = l.before.app_id /\ l.after.app_id = Undef)
       /\ l.before.app_id.k # "str" => l.fileAfter = l.fileBefore
       /\ l.fileAfter[OtherScope(l.scope)] = l.fileBefore[OtherScope(l.scope)]
       /\ \A i \in 1..(j - 1) :
            loads[i].scope = l.scope =>
              (l.before = loads[i].after /\ l.fileAfter = l.fileBefore)

C14_Witness ==
  /\ Len(loads) >= 2
  /\ loads[1].scope = "sub" /\ loads[2].scope = "sub"
  /\ loads[1].before = [app_id |-> Str("X"), pro_id |-> Str("Y")]
  /\ loads[2].after = [app_id |-> Undef, pro_id |-> Str("X")]
  /\ configFile.sub = loads[2].after

(***************************************************************************)
(* C15  getIntegrations returns, in the order they are declared, exactly   *)
(* the integrations that are not explicitly disabled and were              *)
(* instantiated, whatever the order in which the instantiations settled.   *)
(***************************************************************************)
SlotsOf(n) == { i \in 1..Len(integrationsCall.names) : integrationsCall.names[i] = n }

\* createIntegration(n) was called and gave an integration
Instantiated(n) ==
  \E i \in SlotsOf(n) : integrationsCall.outcomes[i] = "integration"

NotDisabledAndInstantiated(e) ==
  e.val.enabled # Bool("false") /\ Instantiated(e.name)

C15_DeclarationOrder ==
  integrationsCall.pc = "returned" =>
    integrationsCall.ret =
      ObjectKeys(SelectSeq(integrationsFromConfig, NotDisabledAndInstantiated))

\* two integrations, the one declared second settled first
C15_Witness ==
  /\ integrationsCall.pc = "returned"
  /\ integrationsCall.order = <<2, 1>>
  /\ Len(integrationsFromConfig) = 2
  /\ integrationsCall.ret = <<integrationsFromConfig[1].name, integrationsFromConfig[2].name>>

(***************************************************************************)
(* C16  An integration that fails with IntegrationNotFoundException is     *)
(* left out of the returned list with one warning while the others are     *)
(* returned; a failure of any other kind makes getIntegrations fail with   *)
(* that error, and it returns no list.                                     *)
(***************************************************************************)
\* the positions whose createIntegration failed with IntegrationNotFoundException
NotFoundSlots ==
  { i \in 1..Len(integrationsCall.outcomes) :
      integrationsCall.outcomes[i] = "IntegrationNotFoundException" }

\* the positions whose createIntegration failed with anything else
RejectedSlots ==
  { i \in 1..Len(integrationsCall.outcomes) :
      integrationsCall.outcomes[i] \notin {"none", "integration", "IntegrationNotFoundException"} }

Elements(seq) == { seq[i] : i \in 1..Len(seq) }

WarningsFor(n) ==
  Cardinality({ k \in 1..Len(integrationsCall.warnings) : integrationsCall.warnings[k] = n })

C16_NotFoundDropped ==
  /\ integrationsCall.pc = "returned" =>
       /\ RejectedSlots = {}
       /\ \A i \in 1..Len(integrationsCall.slots) :
            IF i \in NotFoundSlots
            THEN /\ integrationsCall.names[i] \notin Elements(integrationsCall.ret)
                 /\ WarningsFor(integrationsCall.names[i]) = 1
            ELSE /\ integrationsCall.names[i] \in Elements(integrationsCall.ret)
                 /\ WarningsFor(integrationsCall.names[i]) = 0
  /\ RejectedSlots # {} =>
       /\ integrationsCall.pc = "failed"
       /\ integrationsCall.ret = <<>>
       /\ \E i \in RejectedSlots :
            /\ integrationsCall.error =
                 integrationsCall.outcomes[i] \o ":" \o integrationsCall.names[i]
            /\ \A k \in 1..Len(integrationsCall.order) :
                 integrationsCall.order[k] \in RejectedSlots =>
                   \E h \in 1..k : integrationsCall.order[h] = i
  /\ integrationsCall.pc = "failed" => RejectedSlots # {}

C16_Witness ==
  /\ integrationsCall.pc = "returned"
  /\ integrationsCall.names = <<"cordova", "capacitor">>
  /\ NotFoundSlots = {1}
  /\ integrationsCall.warnings = <<"cordova">>
  /\ integrationsCall.ret = <<"capacitor">>

(***************************************************************************)
(* C17  Each of getBuildRunner, getServeRunner and getGenerateRunner       *)
(* returns the runner its requireXRunner gave, returns undefined when      *)
(* requireXRunner failed with RunnerNotFoundException, and fails with the  *)
(* very error requireXRunner failed with in every other case.              *)
(***************************************************************************)
C17_RunnerOrUndefined ==
  \A x \in Capabilities :
    runnerCalls[x] # NotCalled =>
      IF requireOutcome[x].ok
      THEN runnerCalls[x] = [kind |-> "returns", v |-> x \o "Runner"]
      ELSE IF requireOutcome[x].v = "RunnerNotFoundException"
      THEN runnerCalls[x] = [kind |-> "returns", v |-> "undefined"]
      ELSE runnerCalls[x] = [kind |-> "throws", v |-> requireOutcome[x].v]

C17_Witness ==
  /\ requireOutcome["Build"] = Succeeds("Build")
  /\ requireOutcome["Serve"] = Throws("RunnerNotFoundException")
  /\ requireOutcome["Generate"] = Throws("TypeError")
  /\ runnerCalls["Build"] = [kind |-> "returns", v |-> "BuildRunner"]
  /\ runnerCalls["Serve"] = [kind |-> "returns", v |-> "undefined"]
  /\ runnerCalls["Generate"] = [kind |-> "throws", v |-> "TypeError"]

====
